---- MODULE Spec2Model ----
(***************************************************************************)
(* A model of the retrieval pipeline of the Groq RAG application:          *)
(*   utils/chromadb_utils.py   collection-name sanitizer, index operations *)
(*   utils/pdf_processing.py   fixed-size chunker                          *)
(*   pages/2_Chat_with_PDF.py  the "Chat with PDF" page run                *)
(* A string is a sequence of one-character strings.                        *)
(***************************************************************************)
EXTENDS Integers, Sequences, FiniteSets, TLC

VARIABLES
    san_in, san_out, san_again, san_pc,      \* sanitizer: input, result, result of a second pass, position
    ch_text, ch_size, ch_out, ch_pc,         \* chunker: text, chunk_size, chunks, position
    rc_store, rc_pc, rc_name, rc_ret,        \* creation race: the client's collections, and per caller its
                                             \* position, its collection_name and what it returned
    store,                                   \* chroma_client: collection name -> (chunk index -> stored item)
    client_ignores_existing,                 \* whether the installed client's add ignores an existing id
    op,                                      \* the last index operation called and what it returned
    pdf_chat_messages,                       \* st.session_state["pdf_chat_messages"]
    messages,                                \* st.session_state.messages
    collection_name,                         \* st.session_state.collection_name (<<>> for None)
    previous_file,                           \* st.session_state.previous_file (<<>> for None)
    run,                                     \* what the last page run did
    ingested                                 \* history: the files whose ingestion (lines 108-118) some
                                             \* run has completed

sanVars == <<san_in, san_out, san_again, san_pc>>
chunkVars == <<ch_text, ch_size, ch_out, ch_pc>>
raceVars == <<rc_store, rc_pc, rc_name, rc_ret>>
indexVars == <<store, client_ignores_existing, op>>
sessionVars == <<pdf_chat_messages, messages, collection_name, previous_file, run, ingested>>
vars == <<sanVars, chunkVars, raceVars, indexVars, sessionVars>>

None == "None"

\* None, for a file name, a collection name and a submitted question.
NoFile == <<>>
NoName == <<>>
NoPrompt == ""

Min(a, b) == IF a < b THEN a ELSE b

SetMax(S) == CHOOSE m \in S : \A n \in S : n <= m

\* All strings over alphabet A of length 0..n.
StringsUpTo(A, n) == UNION {[1..k -> A] : k \in 0..n}

\* The string made of n copies of character c.
Repeat(c, n) == [i \in 1..n |-> c]

(***************************************************************************)
(* Characters                                                              *)
(***************************************************************************)
LowerChars == {"a", "b", "c", "d", "f", "l", "o", "p", "x", "y", "z"}
UpperChars == {"A", "B"}
DigitChars == {"7"}

\* [a-zA-Z0-9]
IsAlnum(c) == c \in LowerChars \cup UpperChars \cup DigitChars

\* [a-zA-Z0-9_-]
IsNameChar(c) == IsAlnum(c) \/ c \in {"_", "-"}

\* str.lower() on one character
LowerChar(c) == CASE c = "A" -> "a" [] c = "B" -> "b" [] OTHER -> c

(***************************************************************************)
(* sanitize_collection_name, one definition per statement                  *)
(***************************************************************************)
MinNameLen == 3
MaxNameLen == 63
ColPrefix == <<"c", "o", "l", "_">>

\* re.sub(r"[^a-zA-Z0-9_-]", "_", name)
ReplaceInvalid(s) == [i \in 1..Len(s) |-> IF IsNameChar(s[i]) THEN s[i] ELSE "_"]

\* re.sub(r"^[^a-zA-Z0-9]+", "", s)
StripLeading(s) ==
    LET alnum == {i \in 1..Len(s) : IsAlnum(s[i])}
    IN  IF alnum = {} THEN <<>>
        ELSE SubSeq(s, CHOOSE i \in alnum : \A j \in alnum : i <= j, Len(s))

\* re.sub(r"[^a-zA-Z0-9]+$", "", s)
StripTrailing(s) ==
    LET alnum == {i \in 1..Len(s) : IsAlnum(s[i])}
    IN  IF alnum = {} THEN <<>> ELSE SubSeq(s, 1, SetMax(alnum))

\* if len(s) < 3: s = f"col_{s}"
PadShort(s) == IF Len(s) < MinNameLen THEN ColPrefix \o s ELSE s

\* s[:63]
Truncate(s) == SubSeq(s, 1, Min(Len(s), MaxNameLen))

\* s.lower()
Lower(s) == [i \in 1..Len(s) |-> LowerChar(s[i])]

sanitize_collection_name(name) ==
    Lower(StripTrailing(Truncate(PadShort(StripTrailing(StripLeading(ReplaceInvalid(name)))))))

\* The naming invariant of a collection: [a-z0-9_-]{3,63}, alphanumeric at both ends.
IsLowerNameChar(c) == c \in LowerChars \cup DigitChars \cup {"_", "-"}

ValidCollectionName(s) ==
    /\ Len(s) >= MinNameLen
    /\ Len(s) <= MaxNameLen
    /\ \A i \in 1..Len(s) : IsLowerNameChar(s[i])
    /\ IsAlnum(s[1])
    /\ IsAlnum(s[Len(s)])

(***************************************************************************)
(* Sanitizer inputs: every short string, and long strings around the       *)
(* 63-character truncation point (an edge, a run of one character, an      *)
(* edge).                                                                  *)
(***************************************************************************)
MaxShortLen == 2
MaxEdgeLen == 1
MaxSlack == 2

SanAlphabet == {"a", "B", "7", "_", "-", "."}

ShortNames == StringsUpTo(SanAlphabet, MaxShortLen)

LongNames ==
    {p \o Repeat(c, k) \o s :
        p \in StringsUpTo(SanAlphabet, MaxEdgeLen),
        s \in StringsUpTo(SanAlphabet, MaxEdgeLen),
        c \in SanAlphabet,
        k \in (MaxNameLen - MaxSlack)..(MaxNameLen + MaxSlack)}

SanInputs == ShortNames \cup LongNames

InitSanitizeVars ==
    /\ san_in \in SanInputs
    /\ san_out = None
    /\ san_again = None
    /\ san_pc = "input"

IdleSanitizeVars ==
    /\ san_in = <<>>
    /\ san_out = None
    /\ san_again = None
    /\ san_pc = "input"

\* y = sanitize_collection_name(x)
SanitizeOnce ==
    /\ san_pc = "input"
    /\ san_out' = sanitize_collection_name(san_in)
    /\ san_pc' = "once"
    /\ UNCHANGED <<san_in, san_again, chunkVars, raceVars, indexVars, sessionVars>>

\* z = sanitize_collection_name(y)
SanitizeAgain ==
    /\ san_pc = "once"
    /\ san_again' = sanitize_collection_name(san_out)
    /\ san_pc' = "twice"
    /\ UNCHANGED <<san_in, san_out, chunkVars, raceVars, indexVars, sessionVars>>

(***************************************************************************)
(* split_text_into_chunks                                                  *)
(***************************************************************************)
DefaultChunkSize == 500

\* text[i:i+chunk_size] for a 0-based i
Slice(text, i, chunk_size) == SubSeq(text, i + 1, Min(Len(text), i + chunk_size))

\* A range that stops before a trailing partial window.
RangeStartsFullOnly(n, chunk_size) ==
    [k \in 1..(n \div chunk_size) |-> (k - 1) * chunk_size]

\* range(0, len(text), chunk_size), as the increasing sequence of its elements
RangeStarts(n, chunk_size) ==
    [k \in 1..((n + chunk_size - 1) \div chunk_size) |-> (k - 1) * chunk_size]

split_text_into_chunks(text, chunk_size) ==
    LET starts == RangeStarts(Len(text), chunk_size)
    IN  [k \in 1..Len(starts) |-> Slice(text, starts[k], chunk_size)]

RECURSIVE Concat(_)
Concat(ss) == IF ss = <<>> THEN <<>> ELSE Head(ss) \o Concat(Tail(ss))

MaxTextLen == 4
MaxChunkSize == 3
TextAlphabet == {"x", "y"}

InitChunkVars ==
    /\ ch_text \in StringsUpTo(TextAlphabet, MaxTextLen)
    /\ ch_size \in 1..MaxChunkSize
    /\ ch_out = None
    /\ ch_pc = "input"

IdleChunkVars ==
    /\ ch_text = <<>>
    /\ ch_size = 1
    /\ ch_out = None
    /\ ch_pc = "input"

\* chunks = split_text_into_chunks(text, chunk_size)
SplitCall ==
    /\ ch_pc = "input"
    /\ ch_out' = split_text_into_chunks(ch_text, ch_size)
    /\ ch_pc' = "done"
    /\ UNCHANGED <<ch_text, ch_size, sanVars, raceVars, indexVars, sessionVars>>

(***************************************************************************)
(* create_or_get_collection, one action per client call, run by            *)
(* concurrent callers against the shared client.  The client holds a set   *)
(* of collections <<name, id>>; get_collection raises when no collection   *)
(* has the name, create_collection raises when one has.                    *)
(***************************************************************************)
NumCallers == 2

Callers == 1..NumCallers

RaceNames == {<<"p", "d", "f", "_", "a">>, <<"p", "d", "f", "_", "b">>}

Named(colls, name) == {c \in colls : c.name = name}

\* What a caller holds when a client call raised instead of returning a collection.
NoCollection == [name |-> <<>>, id |-> 0]

NoReturn == [handle |-> NoCollection, via |-> "none"]

\* chroma_client.get_collection(name): the collection, or NoCollection when it raises
ClientGet(colls, name) ==
    IF Named(colls, name) = {} THEN NoCollection ELSE CHOOSE c \in Named(colls, name) : TRUE

\* chroma_client.create_collection(name=...): whether it raises
ClientCreateRaises(colls, name) == Named(colls, name) # {}

NewCollection(colls, name) == [name |-> name, id |-> Cardinality(colls) + 1]

InitRaceVars ==
    /\ rc_store \in {{}} \cup {{[name |-> n, id |-> 1]} : n \in RaceNames}
    /\ rc_pc = [c \in Callers |-> "idle"]
    /\ rc_name = [c \in Callers |-> <<>>]
    /\ rc_ret = [c \in Callers |-> NoReturn]

IdleRaceVars ==
    /\ rc_store = {}
    /\ rc_pc = [c \in Callers |-> "idle"]
    /\ rc_name = [c \in Callers |-> <<>>]
    /\ rc_ret = [c \in Callers |-> NoReturn]

\* a caller enters create_or_get_collection(collection_name)
RaceCall(c) ==
    /\ rc_pc[c] \in {"idle", "returned"}
    /\ \E n \in RaceNames : rc_name' = [rc_name EXCEPT ![c] = n]
    /\ rc_pc' = [rc_pc EXCEPT ![c] = "get"]
    /\ rc_ret' = [rc_ret EXCEPT ![c] = NoReturn]
    /\ UNCHANGED <<rc_store, sanVars, chunkVars, indexVars, sessionVars>>

\* try: return chroma_client.get_collection(collection_name)
RaceGet(c) ==
    /\ rc_pc[c] = "get"
    /\ LET got == ClientGet(rc_store, rc_name[c])
       IN  IF got # NoCollection
           THEN /\ rc_ret' = [rc_ret EXCEPT ![c] = [handle |-> got, via |-> "get"]]
                /\ rc_pc' = [rc_pc EXCEPT ![c] = "returned"]
           ELSE /\ rc_pc' = [rc_pc EXCEPT ![c] = "create"]
                /\ UNCHANGED rc_ret
    /\ UNCHANGED <<rc_store, rc_name, sanVars, chunkVars, indexVars, sessionVars>>

\* except: try: return chroma_client.create_collection(...)
RaceCreate(c) ==
    /\ rc_pc[c] = "create"
    /\ IF ClientCreateRaises(rc_store, rc_name[c])
       THEN /\ rc_pc' = [rc_pc EXCEPT ![c] = "retry"]
            /\ UNCHANGED <<rc_store, rc_ret>>
       ELSE LET made == NewCollection(rc_store, rc_name[c])
            IN  /\ rc_store' = rc_store \cup {made}
                /\ rc_ret' = [rc_ret EXCEPT ![c] = [handle |-> made, via |-> "create"]]
                /\ rc_pc' = [rc_pc EXCEPT ![c] = "returned"]
    /\ UNCHANGED <<rc_name, sanVars, chunkVars, indexVars, sessionVars>>

\* Without the fetch after a failed create, the create error propagates.
AfterCreateFailureNoRetry(colls, name) == NoCollection

\* except: try: return chroma_client.get_collection(collection_name)
AfterCreateFailure(colls, name) == ClientGet(colls, name)

\* ... except: st.error(...); raise
RaceRetry(c) ==
    /\ rc_pc[c] = "retry"
    /\ LET got == AfterCreateFailure(rc_store, rc_name[c])
       IN  IF got # NoCollection
           THEN /\ rc_ret' = [rc_ret EXCEPT ![c] = [handle |-> got, via |-> "retry"]]
                /\ rc_pc' = [rc_pc EXCEPT ![c] = "returned"]
           ELSE /\ rc_pc' = [rc_pc EXCEPT ![c] = "raised"]
                /\ UNCHANGED rc_ret
    /\ UNCHANGED <<rc_store, rc_name, sanVars, chunkVars, indexVars, sessionVars>>

(***************************************************************************)
(* The uploaded documents: a file name and the text extract_pdf_text       *)
(* returns for it.  Two of the names differ only in case.                  *)
(***************************************************************************)
ExtraLen == 1

FileUpperA == <<"A", ".", "p", "d", "f">>
FileLowerA == <<"a", ".", "p", "d", "f">>
FileB == <<"b", ".", "p", "d", "f">>

Files == {FileUpperA, FileLowerA, FileB}

\* A text of two chunks, a text of one chunk, and a PDF without extractable text.
FileText(f) ==
    CASE f = FileUpperA -> Repeat("x", DefaultChunkSize + ExtraLen)
      [] f = FileLowerA -> Repeat("y", 1 + ExtraLen)
      [] OTHER -> <<>>

\* sanitize_collection_name(f"pdf_{uploaded_file.name}"), per file
CollectionNameOf == [f \in Files |-> sanitize_collection_name(<<"p", "d", "f", "_">> \o f)]

CollectionFor(f) == CollectionNameOf[f]

\* split_text_into_chunks(pdf_text), per file
FileChunks == [f \in Files |-> split_text_into_chunks(FileText(f), DefaultChunkSize)]

ChunksOf(f) == FileChunks[f]

CollectionNames == {CollectionFor(f) : f \in Files}

(***************************************************************************)
(* The index operations of chromadb_utils.py over the client's             *)
(* collections.  A collection maps the chunk index i of id "chunk_i" to    *)
(* the stored item.  A client call raises when the backend fails (an       *)
(* input of the operation) or for the reason the call documents: get and   *)
(* delete of a missing collection, create of an existing one.  What        *)
(* collection.add does with an id that is already present depends on the   *)
(* installed chromadb, which the repository does not pin: it raises, or    *)
(* it logs "Add of existing embedding ID", leaves the stored item alone    *)
(* and returns.                                                            *)
(***************************************************************************)
NResults == 3

EmptyCollection == [i \in {} |-> 0]

Count(coll) == Cardinality(DOMAIN coll)

Exists(st, name) == name \in DOMAIN st

WithCollection(st, name, coll) == [n \in DOMAIN st \cup {name} |-> IF n = name THEN coll ELSE st[n]]

WithoutCollection(st, name) == [n \in DOMAIN st \ {name} |-> st[n]]

create_or_get_collection(st, name, getFails, createFails, retryFails) ==
    IF Exists(st, name) /\ ~getFails
    THEN [store |-> st, raised |-> FALSE, failed |-> {}]
    ELSE IF ~Exists(st, name) /\ ~createFails
    THEN [store |-> WithCollection(st, name, EmptyCollection), raised |-> FALSE,
          failed |-> {"get"}]
    ELSE IF Exists(st, name) /\ ~retryFails
    THEN [store |-> st, raised |-> FALSE, failed |-> {"get", "create"}]
    ELSE [store |-> st, raised |-> TRUE, failed |-> {"get", "create", "retry"}]

\* collection.add(ids=[f"chunk_{idx}"], ...) raises
AddRaises(coll, idx, failing, ignores) ==
    idx \in failing \/ (idx \in DOMAIN coll /\ ~ignores)

\* collection.add(ids=[f"chunk_{idx}"], documents=[chunk], metadatas=[{"chunk_index": idx}], ...)
\* when it returns: a new id is stored, an existing id is left as it is
AddItem(coll, idx, chunk) ==
    IF idx \in DOMAIN coll THEN coll
    ELSE [i \in DOMAIN coll \cup {idx} |->
            IF i = idx THEN [document |-> chunk, chunk_index |-> idx] ELSE coll[i]]

\* added_count += 1 is reached only when the add did not raise
CountAdded(added_count, raised) == IF raised THEN added_count ELSE added_count + 1

\* for idx, (chunk, embedding) in enumerate(zip(chunks, embeddings)), from idx on
RECURSIVE AddLoop(_, _, _, _, _, _, _)
AddLoop(coll, chunks, n, idx, failing, ignores, added_count) ==
    IF idx >= n THEN [coll |-> coll, value |-> added_count, raised |-> FALSE]
    ELSE LET raises == AddRaises(coll, idx, failing, ignores)
         IN  AddLoop(IF raises THEN coll ELSE AddItem(coll, idx, chunks[idx + 1]),
                     chunks, n, idx + 1, failing, ignores, CountAdded(added_count, raises))

add_documents_to_collection(coll, chunks, embeddings, failing, ignores) ==
    AddLoop(coll, chunks, Min(Len(chunks), Len(embeddings)), 0, failing, ignores, 0)

\* embed_text(text): the vector the embedding model gives the text
Embedding(text) == [vector_of |-> text]

\* The orders in which collection.query can rank the n_results nearest items.
Rankings(coll, n_results) ==
    LET m == Min(n_results, Count(coll))
    IN  {r \in [1..m -> DOMAIN coll] : \A i, j \in 1..m : r[i] = r[j] => i = j}

\* results["documents"][0] for one ranking
RankedDocuments(coll, ranking) == [k \in 1..Len(ranking) |-> coll[ranking[k]].document]

\* A query whose failure propagates to the caller.
QueryUnguarded(coll, ranking, queryFails) ==
    IF queryFails THEN [value |-> <<>>, raised |-> TRUE]
    ELSE [value |-> RankedDocuments(coll, ranking), raised |-> FALSE]

query_collection(coll, ranking, queryFails) ==
    IF queryFails THEN [value |-> <<>>, raised |-> FALSE]
    ELSE [value |-> RankedDocuments(coll, ranking), raised |-> FALSE]

delete_collection(st, name, deleteFails) ==
    IF Exists(st, name) /\ ~deleteFails
    THEN [store |-> WithoutCollection(st, name), value |-> TRUE, raised |-> FALSE]
    ELSE [store |-> st, value |-> FALSE, raised |-> FALSE]

list_all_collections(st, listFails) ==
    IF listFails THEN [value |-> {}, raised |-> FALSE]
    ELSE [value |-> DOMAIN st, raised |-> FALSE]

collection_exists(st, name, getFails) ==
    [value |-> Exists(st, name) /\ ~getFails, raised |-> FALSE]

\* A guard that always re-indexes.
AlwaysIndex(coll) == FALSE

\* whether collection.get()["documents"] is non-empty
HasDocuments(coll) == Count(coll) > 0

\* collection.get()["documents"], read outside any try
collection_documents_check(coll, getFails) ==
    IF getFails THEN [value |-> FALSE, raised |-> TRUE]
    ELSE [value |-> HasDocuments(coll), raised |-> FALSE]

get_collection_count(coll, countFails) ==
    IF countFails THEN [value |-> 0, raised |-> FALSE]
    ELSE [value |-> Count(coll), raised |-> FALSE]

(***************************************************************************)
(* Direct calls of the index operations.  op records the call: its name,   *)
(* whether an exception left it, its value, and for an add the ids of the  *)
(* call that were new and the number of items it inserted.                 *)
(***************************************************************************)
\* The record of a page run, before any run.
NoRun ==
    [kind |-> "none", uploaded |-> NoFile, prompt |-> NoPrompt, again |-> FALSE, raised |-> "none",
     switched |-> FALSE, ingest |-> "none", adds |-> 0, shown |-> <<>>,
     queried |-> FALSE, retrieved |-> <<>>, llm |-> FALSE, warned |-> FALSE]

NoOp ==
    [name |-> "none", faulted |-> FALSE, raised |-> FALSE, value |-> 0, failed |-> {},
     items |-> 0, fresh |-> 0, inserted |-> 0]

\* faulted: the backend failed during the call
OpRecord(name, faulted, raised, value) ==
    [name |-> name, faulted |-> faulted, raised |-> raised, value |-> value, failed |-> {},
     items |-> 0, fresh |-> 0, inserted |-> 0]

InitIndexVars ==
    /\ store = EmptyCollection
    /\ client_ignores_existing \in BOOLEAN
    /\ op = NoOp

IdleIndexVars ==
    /\ store = EmptyCollection
    /\ client_ignores_existing = FALSE
    /\ op = NoOp

CallCreateOrGet ==
    /\ run' = NoRun
    /\ UNCHANGED <<pdf_chat_messages, messages, collection_name, previous_file, ingested>>
    /\ UNCHANGED <<sanVars, chunkVars, raceVars, client_ignores_existing>>
    /\ \E name \in CollectionNames, getFails, createFails, retryFails \in BOOLEAN :
        LET r == create_or_get_collection(store, name, getFails, createFails, retryFails)
        IN  /\ store' = r.store
            /\ op' = [OpRecord("create_or_get_collection", getFails \/ createFails \/ retryFails,
                                 r.raised, name) EXCEPT !.failed = r.failed]

CallAdd ==
    /\ run' = NoRun
    /\ UNCHANGED <<pdf_chat_messages, messages, collection_name, previous_file, ingested>>
    /\ UNCHANGED <<sanVars, chunkVars, raceVars, client_ignores_existing>>
    /\ \E name \in DOMAIN store, f \in Files :
        LET chunks == ChunksOf(f)
            embeddings == [k \in 1..Len(chunks) |-> Embedding(chunks[k])]
        IN  \E failing \in SUBSET (0..(Len(chunks) - 1)) :
                LET r == add_documents_to_collection(store[name], chunks, embeddings, failing,
                                                     client_ignores_existing)
                IN  /\ store' = WithCollection(store, name, r.coll)
                    /\ op' = [OpRecord("add_documents_to_collection", failing # {}, r.raised, r.value) EXCEPT
                                !.items = Len(chunks),
                                !.fresh = Cardinality((0..(Len(chunks) - 1)) \ DOMAIN store[name]),
                                !.inserted = Count(r.coll) - Count(store[name])]

CallQuery ==
    /\ run' = NoRun
    /\ UNCHANGED <<pdf_chat_messages, messages, collection_name, previous_file, ingested>>
    /\ UNCHANGED <<sanVars, chunkVars, raceVars, client_ignores_existing>>
    /\ \E name \in DOMAIN store, queryFails \in BOOLEAN :
        \E ranking \in Rankings(store[name], NResults) :
            LET r == query_collection(store[name], ranking, queryFails)
            IN  /\ op' = OpRecord("query_collection", queryFails, r.raised, r.value)
                /\ UNCHANGED store

CallDelete ==
    /\ run' = NoRun
    /\ UNCHANGED <<pdf_chat_messages, messages, collection_name, previous_file, ingested>>
    /\ UNCHANGED <<sanVars, chunkVars, raceVars, client_ignores_existing>>
    /\ \E name \in CollectionNames, deleteFails \in BOOLEAN :
        LET r == delete_collection(store, name, deleteFails)
        IN  /\ store' = r.store
            /\ op' = OpRecord("delete_collection", deleteFails, r.raised, r.value)

CallList ==
    /\ run' = NoRun
    /\ UNCHANGED <<pdf_chat_messages, messages, collection_name, previous_file, ingested>>
    /\ UNCHANGED <<sanVars, chunkVars, raceVars, client_ignores_existing>>
    /\ \E listFails \in BOOLEAN :
        LET r == list_all_collections(store, listFails)
        IN  /\ op' = OpRecord("list_all_collections", listFails, r.raised, r.value)
            /\ UNCHANGED store

CallExists ==
    /\ run' = NoRun
    /\ UNCHANGED <<pdf_chat_messages, messages, collection_name, previous_file, ingested>>
    /\ UNCHANGED <<sanVars, chunkVars, raceVars, client_ignores_existing>>
    /\ \E name \in CollectionNames, getFails \in BOOLEAN :
        LET r == collection_exists(store, name, getFails)
        IN  /\ op' = OpRecord("collection_exists", getFails, r.raised, r.value)
            /\ UNCHANGED store

CallCount ==
    /\ run' = NoRun
    /\ UNCHANGED <<pdf_chat_messages, messages, collection_name, previous_file, ingested>>
    /\ UNCHANGED <<sanVars, chunkVars, raceVars, client_ignores_existing>>
    /\ \E name \in DOMAIN store, countFails \in BOOLEAN :
        LET r == get_collection_count(store[name], countFails)
        IN  /\ op' = OpRecord("get_collection_count", countFails, r.raised, r.value)
            /\ UNCHANGED store


CallContentCheck ==
    /\ run' = NoRun
    /\ UNCHANGED <<pdf_chat_messages, messages, collection_name, previous_file, ingested>>
    /\ UNCHANGED <<sanVars, chunkVars, raceVars, client_ignores_existing>>
    /\ \E name \in DOMAIN store, getFails \in BOOLEAN :
        LET r == collection_documents_check(store[name], getFails)
        IN  /\ op' = OpRecord("collection.get", getFails, r.raised, r.value)
            /\ UNCHANGED store

(***************************************************************************)
(* pages/2_Chat_with_PDF.py: one run of main() per action.  A run gets     *)
(* the uploaded file (<<>> for none), the submitted question ("" for       *)
(* none) and the set of calls that fail during it.  Within a run           *)
(* st.session_state.messages and st.session_state["pdf_chat_messages"]     *)
(* name the same list object until one of them is rebound: aliased says    *)
(* whether they still do.                                                  *)
(***************************************************************************)
MaxMessages == 2
MaxFaults == 1

Prompts == {"q"}

FaultSites == {"extract", "ingest.get", "ingest.create", "ingest.retry", "content",
               "ingest.embed", "query.get", "query.create", "query.retry",
               "query.embed", "query", "llm"}

AddIndices == UNION {0..(Len(ChunksOf(f)) - 1) : f \in Files}

FaultPoints == {<<site, 0>> : site \in FaultSites} \cup {<<"add", i>> : i \in AddIndices}

\* The subsets of S with at most k elements.
RECURSIVE SetsUpTo(_, _)
SetsUpTo(S, k) ==
    IF k = 0 THEN {{}}
    ELSE LET smaller == SetsUpTo(S, k - 1)
         IN  smaller \cup {X \cup {p} : X \in smaller, p \in S}

\* At most MaxFaults calls fail in one run.
FaultSets == SetsUpTo(FaultPoints, MaxFaults)

UploadSites == {"extract", "ingest.get", "ingest.create", "ingest.retry", "content",
                "ingest.embed", "add"}

FaultSetsAt(sites) == SetsUpTo({p \in FaultPoints : p[1] \in sites}, MaxFaults)

UploadFaultSets == FaultSetsAt(UploadSites)

QueryFaultSets == FaultSetsAt(FaultSites \ UploadSites)

\* The failures a run can meet: those of the calls it reaches (lines 96-97, 126).
RunFaultSets(uploaded, prompt) ==
    LET ingests == uploaded # NoFile /\ uploaded # previous_file
        asks == prompt # NoPrompt
    IN  CASE ingests /\ asks -> FaultSets
          [] ingests /\ ~asks -> UploadFaultSets
          [] ~ingests /\ asks -> QueryFaultSets
          [] OTHER -> {{}}

Fails(F, site) == <<site, 0>> \in F

FailingAdds(F) == {i \in AddIndices : <<"add", i>> \in F}

UserMessage(prompt) == [role |-> "user", content |-> prompt]

AssistantMessage == [role |-> "assistant", content |-> "answer"]

\* lines 62-67 and 79-83: the session state a run starts from
StartRun ==
    [stored |-> pdf_chat_messages, messages |-> pdf_chat_messages, aliased |-> TRUE,
     collection_name |-> collection_name, previous_file |-> previous_file,
     store |-> store, raised |-> "none", switched |-> FALSE, ingest |-> "none",
     adds |-> 0, shown |-> <<>>, queried |-> FALSE, retrieved |-> <<>>,
     llm |-> FALSE, warned |-> FALSE]


\* lines 108-118, after the session state was reset for the new file
Ingest(s, uploaded, F) ==
    LET name == CollectionFor(uploaded)
        s1 == [s EXCEPT !.collection_name = name]
        cog == create_or_get_collection(s.store, name, Fails(F, "ingest.get"),
                                        Fails(F, "ingest.create"), Fails(F, "ingest.retry"))
        s2 == [s1 EXCEPT !.store = cog.store]
        chunks == ChunksOf(uploaded)
        embeddings == [k \in 1..Len(chunks) |-> Embedding(chunks[k])]
        added == add_documents_to_collection(cog.store[name], chunks, embeddings,
                                             FailingAdds(F), client_ignores_existing)
        has == collection_documents_check(cog.store[name], Fails(F, "content"))
    IN  IF cog.raised THEN [s1 EXCEPT !.raised = "create_or_get_collection", !.ingest = "failed"]
        ELSE IF has.raised THEN [s2 EXCEPT !.raised = "collection.get", !.ingest = "failed"]
        ELSE IF has.value THEN [s2 EXCEPT !.ingest = "skipped"]
        ELSE IF chunks # <<>> /\ Fails(F, "ingest.embed")
        THEN [s2 EXCEPT !.raised = "embed_text", !.ingest = "failed"]
        ELSE IF added.raised
        THEN [s2 EXCEPT !.raised = "add_documents_to_collection", !.ingest = "failed"]
        ELSE [s2 EXCEPT !.store = WithCollection(cog.store, name, added.coll),
                        !.ingest = "indexed",
                        !.adds = Min(Len(chunks), Len(embeddings))]

\* lines 95-118
Upload(s, uploaded, F) ==
    IF uploaded = NoFile \/ uploaded = s.previous_file THEN s
    ELSE LET s1 == [s EXCEPT !.messages = <<>>, !.aliased = FALSE,
                             !.collection_name = NoName, !.previous_file = uploaded,
                             !.switched = TRUE]
         IN  IF Fails(F, "extract")
             THEN [s1 EXCEPT !.raised = "extract_pdf_text", !.ingest = "failed"]
             ELSE Ingest(s1, uploaded, F)

\* lines 120-123
Display(s) == IF s.raised # "none" THEN s ELSE [s EXCEPT !.shown = s.messages]

\* A page that calls the language model whatever the retrieval returned.
AnyRetrieval(relevant_chunks) == TRUE

\* if relevant_chunks:
HasRelevantChunks(relevant_chunks) == relevant_chunks # <<>>

\* st.session_state.messages.append(m); st.session_state["pdf_chat_messages"] = st.session_state.messages
AppendMessage(s, m) ==
    LET ms == Append(s.messages, m)
    IN  [s EXCEPT !.messages = ms, !.stored = ms, !.aliased = TRUE]

\* The collection the run's query reads: the one create_or_get_collection returns at line 134.
QueriedCollection(s) ==
    IF Exists(s.store, s.collection_name) THEN s.store[s.collection_name] ELSE EmptyCollection

\* lines 133-166
Answer(s, F, ranking) ==
    LET cog == create_or_get_collection(s.store, s.collection_name, Fails(F, "query.get"),
                                        Fails(F, "query.create"), Fails(F, "query.retry"))
        s1 == [s EXCEPT !.store = cog.store]
        q == query_collection(cog.store[s.collection_name], ranking, Fails(F, "query"))
        s2 == [s1 EXCEPT !.queried = TRUE, !.retrieved = q.value]
    IN  IF cog.raised THEN [s EXCEPT !.raised = "create_or_get_collection"]
        ELSE IF Fails(F, "query.embed") THEN [s1 EXCEPT !.raised = "embed_text"]
        ELSE IF q.raised THEN [s1 EXCEPT !.raised = "query_collection"]
        ELSE IF ~HasRelevantChunks(q.value) THEN [s2 EXCEPT !.warned = TRUE]
        ELSE IF Fails(F, "llm") THEN [s2 EXCEPT !.llm = TRUE, !.raised = "chat.completions"]
        ELSE AppendMessage([s2 EXCEPT !.llm = TRUE], AssistantMessage)

\* lines 126-166
Chat(s, prompt, F, ranking) ==
    IF s.raised # "none" \/ prompt = NoPrompt THEN s
    ELSE LET s1 == AppendMessage(s, UserMessage(prompt))
         IN  IF s1.collection_name = NoName THEN s1 ELSE Answer(s1, F, ranking)

\* The rankings the run's query can see (one empty ranking when the run makes no query).
RunRankings(s, prompt) ==
    IF s.raised # "none" \/ prompt = NoPrompt \/ s.collection_name = NoName THEN {<<>>}
    ELSE Rankings(QueriedCollection(s), NResults)

\* again: the uploaded file had completed an ingestion before this run
RunRecord(kind, uploaded, prompt, s) ==
    [kind |-> kind, uploaded |-> uploaded, prompt |-> prompt,
     again |-> uploaded \in ingested, raised |-> s.raised,
     switched |-> s.switched, ingest |-> s.ingest, adds |-> s.adds, shown |-> s.shown,
     queried |-> s.queried, retrieved |-> s.retrieved, llm |-> s.llm, warned |-> s.warned]

InitSessionVars ==
    /\ pdf_chat_messages = <<>>
    /\ messages = <<>>
    /\ collection_name = NoName
    /\ previous_file = NoFile
    /\ run = NoRun
    /\ ingested = {}

\* lines 72-75: production mode without an API key ends the run after line 67
RunGated ==
    /\ messages' = pdf_chat_messages
    /\ run' = [NoRun EXCEPT !.kind = "gated"]
    /\ op' = NoOp
    /\ UNCHANGED <<pdf_chat_messages, collection_name, previous_file, ingested, store>>
    /\ UNCHANGED <<sanVars, chunkVars, raceVars, client_ignores_existing>>

\* lines 89-92: "Clear chat history" empties the stored list and reruns
RunClear ==
    /\ pdf_chat_messages' = <<>>
    /\ messages' = pdf_chat_messages
    /\ run' = [NoRun EXCEPT !.kind = "cleared"]
    /\ op' = NoOp
    /\ UNCHANGED <<collection_name, previous_file, ingested, store>>
    /\ UNCHANGED <<sanVars, chunkVars, raceVars, client_ignores_existing>>

\* main(), lines 53-166, with the button not pressed
RunWith(uploaded, prompt, F) ==
    /\ prompt # NoPrompt => Len(pdf_chat_messages) + 2 <= MaxMessages
    /\ \E s1 \in {Display(Upload(StartRun, uploaded, F))} :
           \E ranking \in RunRankings(s1, prompt) :
               \E s2 \in {Chat(s1, prompt, F, ranking)} :
                   /\ pdf_chat_messages' = s2.stored
                   /\ messages' = s2.messages
                   /\ collection_name' = s2.collection_name
                   /\ previous_file' = s2.previous_file
                   /\ store' = s2.store
                   /\ run' = RunRecord("page", uploaded, prompt, s2)
                   /\ ingested' =
                        IF s1.ingest \in {"skipped", "indexed"}
                        THEN ingested \cup {uploaded} ELSE ingested
    /\ op' = NoOp
    /\ UNCHANGED <<sanVars, chunkVars, raceVars, client_ignores_existing>>

\* a page run
RunPage ==
    \E uploaded \in Files \cup {NoFile}, prompt \in Prompts \cup {NoPrompt} :
        \E F \in RunFaultSets(uploaded, prompt) :
            RunWith(uploaded, prompt, F)

(***************************************************************************)
(* Specifications                                                          *)
(***************************************************************************)
InitSanitize == InitSanitizeVars /\ IdleChunkVars /\ IdleRaceVars /\ IdleIndexVars /\ InitSessionVars
NextSanitize == SanitizeOnce \/ SanitizeAgain
SpecSanitize == InitSanitize /\ [][NextSanitize]_vars

InitChunk == InitChunkVars /\ IdleSanitizeVars /\ IdleRaceVars /\ IdleIndexVars /\ InitSessionVars
NextChunk == SplitCall
SpecChunk == InitChunk /\ [][NextChunk]_vars

InitRace == InitRaceVars /\ IdleSanitizeVars /\ IdleChunkVars /\ IdleIndexVars /\ InitSessionVars
NextRace == \E c \in Callers : RaceCall(c) \/ RaceGet(c) \/ RaceCreate(c) \/ RaceRetry(c)
SpecRace == InitRace /\ [][NextRace]_vars

InitIndex == InitIndexVars /\ IdleSanitizeVars /\ IdleChunkVars /\ IdleRaceVars /\ InitSessionVars
NextIndex ==
    \/ CallCreateOrGet
    \/ CallAdd
    \/ CallQuery
    \/ CallDelete
    \/ CallList
    \/ CallExists
    \/ CallCount
    \/ CallContentCheck
SpecIndex == InitIndex /\ [][NextIndex]_vars

Init == InitSessionVars /\ InitIndexVars /\ IdleSanitizeVars /\ IdleChunkVars /\ IdleRaceVars
Next == RunGated \/ RunClear \/ RunPage
Spec == Init /\ [][Next]_vars

(***************************************************************************)
(* C1: for every non-empty input, the sanitized name has 3..63 characters  *)
(* from [a-z0-9_-] and starts and ends with an alphanumeric character.     *)
(***************************************************************************)
C1_SanitizedNameValid ==
    (san_pc # "input" /\ san_in # <<>>) => ValidCollectionName(san_out)

(***************************************************************************)
(* C2: the sanitizer is idempotent: sanitizing a sanitized name returns it *)
(* unchanged, for every input string.                                      *)
(***************************************************************************)
C2_SanitizeIdempotent ==
    san_pc = "twice" => san_again = san_out

(***************************************************************************)
(* C3: the chunks concatenate back to the text, every chunk but the last   *)
(* has exactly chunk_size characters, the last has 1..chunk_size, and the  *)
(* empty text has no chunks.                                               *)
(***************************************************************************)
C3_ChunksPartitionText ==
    ch_pc = "done" =>
        /\ Concat(ch_out) = ch_text
        /\ \A k \in 1..Len(ch_out) :
              /\ k < Len(ch_out) => Len(ch_out[k]) = ch_size
              /\ Len(ch_out[k]) >= 1
              /\ Len(ch_out[k]) <= ch_size
        /\ (ch_text = <<>> => ch_out = <<>>)

C3_Witness ==
    /\ ch_pc = "done"
    /\ Len(ch_out) >= 2
    /\ Len(ch_out[Len(ch_out)]) < ch_size

(***************************************************************************)
(* C5: under every interleaving of concurrent create_or_get_collection     *)
(* calls no caller raises, exactly one collection exists for a name once   *)
(* any caller has returned it, and all callers that returned for a name    *)
(* hold that one collection.                                               *)
(***************************************************************************)
C5_CreationRaceTolerated ==
    \A c \in Callers :
        /\ rc_pc[c] # "raised"
        /\ rc_pc[c] = "returned" =>
              /\ Cardinality(Named(rc_store, rc_name[c])) = 1
              /\ rc_ret[c].handle \in Named(rc_store, rc_name[c])
              /\ \A d \in Callers :
                    (rc_pc[d] = "returned" /\ rc_name[d] = rc_name[c])
                        => rc_ret[d].handle = rc_ret[c].handle

C5_Witness ==
    \E c, d \in Callers :
        /\ rc_pc[c] = "returned" /\ rc_pc[d] = "returned"
        /\ rc_name[c] = rc_name[d]
        /\ rc_ret[c].via = "create"
        /\ rc_ret[d].via = "retry"

(***************************************************************************)
(* C4 (as claimed): a run that uploads again a file whose ingestion had    *)
(* completed before performs no add and leaves the size of the file's      *)
(* collection as it was.                                                   *)
(***************************************************************************)
CountOf(st, name) == IF Exists(st, name) THEN Count(st[name]) ELSE 0

C4_ReingestionAddsNothing ==
    [][(run'.switched /\ run'.again) =>
          /\ run'.adds = 0
          /\ CountOf(store', CollectionFor(run'.uploaded))
                = CountOf(store, CollectionFor(run'.uploaded))]_vars

(***************************************************************************)
(* C4 (amended): once a collection holds at least one chunk no page run    *)
(* changes it, and a run that uploads a file of that collection issues no  *)
(* collection.add.                                                         *)
(***************************************************************************)
C4_NonEmptyCollectionNeverReindexed ==
    [][\A n \in DOMAIN store :
          Count(store[n]) > 0 =>
              /\ Exists(store', n)
              /\ store'[n] = store[n]
              /\ (run'.switched /\ collection_name' = n) => run'.adds = 0]_vars

C4_Witness ==
    /\ run.switched
    /\ run.again
    /\ run.ingest = "skipped"
    /\ run.adds = 0
    /\ Count(store[collection_name]) > 0

(***************************************************************************)
(* C6 (as claimed): no index operation, create_or_get_collection and the   *)
(* collection-content check included, lets an exception out.               *)
(***************************************************************************)
C6_NoIndexOperationRaises == ~op.raised

(***************************************************************************)
(* C6 (amended): add, query, delete, exists, count and list never raise    *)
(* and return their safe default when the backend fails; an exception      *)
(* leaves create_or_get_collection only when its get, its create and its   *)
(* second get all raised, and leaves the unguarded collection-content      *)
(* check whenever the backend fails.                                       *)
(***************************************************************************)
C6_OnlyCreateAndContentCheckRaise ==
    /\ op.raised =>
          \/ op.name = "create_or_get_collection" /\ op.failed = {"get", "create", "retry"}
          \/ op.name = "collection.get" /\ op.faulted
    /\ (op.name = "query_collection" /\ op.faulted) => op.value = <<>>
    /\ (op.name = "delete_collection" /\ op.faulted) => op.value = FALSE
    /\ (op.name = "collection_exists" /\ op.faulted) => op.value = FALSE
    /\ (op.name = "get_collection_count" /\ op.faulted) => op.value = 0
    /\ (op.name = "list_all_collections" /\ op.faulted) => op.value = {}

C6_Witness ==
    /\ op.name = "query_collection"
    /\ op.faulted
    /\ ~op.raised
    /\ \E n \in DOMAIN store : Count(store[n]) > 0

(***************************************************************************)
(* C7 (as claimed): add_documents_to_collection never raises, and the      *)
(* count it returns is the number of items it inserted, which is at most   *)
(* the number of ids of the call that were not in the collection before.   *)
(***************************************************************************)
C7_AddReturnsInsertedCount ==
    op.name = "add_documents_to_collection" =>
        /\ ~op.raised
        /\ op.value = op.inserted
        /\ op.value <= op.fresh

(***************************************************************************)
(* C8 (as claimed): a run that switches to a file with another name        *)
(* selects a collection other than the previous file's, and a query        *)
(* retrieves only chunks of the currently uploaded document.               *)
(***************************************************************************)
ChunkSet(f) == {ChunksOf(f)[k] : k \in 1..Len(ChunksOf(f))}

C8_DifferentFileDifferentCollection ==
    [][/\ (run'.switched /\ previous_file # NoFile /\ collection_name' # NoName)
            => collection_name' # CollectionFor(previous_file)
       /\ (run'.queried /\ previous_file' # NoFile)
            => \A k \in 1..Len(run'.retrieved) : run'.retrieved[k] \in ChunkSet(previous_file')]_vars

(***************************************************************************)
(* C9: a run calls the language model only when a collection is selected   *)
(* and query_collection returned at least one chunk; when the query        *)
(* returned nothing the run shows the warning and makes no call.           *)
(***************************************************************************)
C9_NoModelCallWithoutContext ==
    /\ run.llm => (run.queried /\ run.retrieved # <<>> /\ collection_name # NoName)
    /\ (run.queried /\ run.retrieved = <<>>) => (run.warned /\ ~run.llm)
    /\ run.warned => (run.queried /\ run.retrieved = <<>>)

C9_Witness ==
    /\ run.queried
    /\ run.retrieved = <<>>
    /\ run.warned
    /\ ~run.llm
    /\ Count(store[collection_name]) > 0

(***************************************************************************)
(* C10 (as claimed): after a run that uploads a file with a new name, with *)
(* no question submitted, the stored message list that the next run loads  *)
(* is empty.                                                               *)
(***************************************************************************)
C10_SwitchClearsStoredHistory ==
    (run.kind = "page" /\ run.switched /\ run.prompt = NoPrompt) => pdf_chat_messages = <<>>

====
